---- MODULE Spec2Model ----
(***************************************************************************)
(* A model of torch/ao/quantization/fx/_model_report/                      *)
(* model_report_visualizer.py: the class ModelReportVisualizer, the        *)
(* report mapping it holds by reference, its two accessors and its six     *)
(* generator methods, together with a caller that owns the mapping and may *)
(* modify it at any time.                                                  *)
(*                                                                         *)
(* Python objects that can be aliased (the report mapping) live in a heap  *)
(* and are named by references; immutable results are plain values.        *)
(***************************************************************************)
EXTENDS Integers, Sequences, FiniteSets, TLC

\* ------------------------------------------------------------ bounds ----

\* The layer identifiers and feature names the caller may use.
ModuleFqns == {"block1.linear", "block1.conv"}

FeatureNames == {"min_val", "is_dynamic"}

\* The largest number of (layer, feature) entries the caller puts in a report.
MaxEntries == 3

\* ------------------------------------------------------ python values ----

\* type(v) of a feature value; a value is a record of its type and payload.
TensorType == "torch.Tensor"

\* A class derived from torch.Tensor: isinstance(v, torch.Tensor) holds of
\* its instances, type(v) == torch.Tensor does not.
TensorSubclassType == "torch.nn.Parameter"

FloatType == "float"

Values ==
    { [type |-> TensorType, data |-> "t"],
      [type |-> TensorSubclassType, data |-> "p"],
      [type |-> FloatType, data |-> "x"] }

TypeOf(v) == v.type

\* The classes whose instances satisfy isinstance(v, torch.Tensor).
TensorClasses == {TensorType, TensorSubclassType}

\* The value None, and a freshly built set object (a value of its own: it
\* does not alias the mapping it was built from).
NoneValue == [kind |-> "None"]

SetObject(S) == [kind |-> "set", elems |-> S]

\* A live view on the keys of the dict at heap reference r (dict.keys()).
KeysView(r) == [kind |-> "dict_keys", ref |-> r]

\* What a caller holding the value v sees in it, given the heap h.
Contents(h, v) ==
    IF v.kind = "set" THEN v.elems
    ELSE IF v.kind = "dict_keys" THEN DOMAIN h[v.ref]
    ELSE {}

\* The empty dict {} / OrderedDict().
EmptyDict == [k \in {} |-> NoneValue]

\* d with key k removed (del d[k]) and with key k set to v (d[k] = v).
DictDel(d, k) == [x \in (DOMAIN d) \ {k} |-> d[x]]

DictSet(d, k, v) == [x \in (DOMAIN d) \cup {k} |-> IF x = k THEN v ELSE d[x]]

\* ------------------------------------------------------------- state ----

VARIABLES
    heap,       \* heap[r]: the report mapping stored at reference r
    mapping,    \* the caller's reference to the mapping it built
    self,       \* the visualizer instance: its attribute generated_reports
    ret,        \* the latest method call: method, args, raised, value
    out,        \* what has been written to standard output
    fresh,      \* TRUE iff the caller has not modified the mapping since ret
    modified    \* TRUE iff the caller modified the mapping after construction

vars == <<heap, mapping, self, ret, out, fresh, modified>>

NoInstance == [constructed |-> FALSE]

NoCall == [method |-> "", args |-> <<>>, raised |-> FALSE, value |-> NoneValue]

\* The report the visualizer holds.
Held == heap[self.generated_reports]

\* The number of (layer, feature) entries of a report.
RECURSIVE NumEntries(_, _)
NumEntries(report, fqns) ==
    IF fqns = {} THEN 0
    ELSE LET m == CHOOSE x \in fqns : TRUE
         IN  Cardinality(DOMAIN report[m]) + NumEntries(report, fqns \ {m})

Init ==
    /\ heap = <<EmptyDict>>
    /\ mapping = 1
    /\ self = NoInstance
    /\ ret = NoCall
    /\ out = <<>>
    /\ fresh = FALSE
    /\ modified = FALSE

\* --------------------------------------------------------- the class ----

\* __init__ with the copy a defensive constructor would take:
\* self.generated_reports = copy.deepcopy(generated_reports).
ModelReportVisualizer_init_copy(h, generated_reports) ==
    [heap |-> Append(h, h[generated_reports]),
     self |-> [constructed |-> TRUE, generated_reports |-> Len(h) + 1]]

\* __init__: self.generated_reports = generated_reports.
ModelReportVisualizer_init(h, generated_reports) ==
    [heap |-> h,
     self |-> [constructed |-> TRUE, generated_reports |-> generated_reports]]

\* get_all_unique_module_fqns that skips the layers with an empty feature dict.
get_all_unique_module_fqns_nonempty(h, slf) ==
    SetObject({m \in DOMAIN h[slf.generated_reports] :
                   DOMAIN h[slf.generated_reports][m] # {}})

\* get_all_unique_module_fqns that returns the keys view instead of a set.
get_all_unique_module_fqns_view(h, slf) == KeysView(slf.generated_reports)

\* return set(self.generated_reports.keys())
get_all_unique_module_fqns(h, slf) ==
    SetObject(DOMAIN h[slf.generated_reports])

\* type(v) == torch.Tensor written as isinstance(v, torch.Tensor).
IsTensor_isinstance(v) == TypeOf(v) \in TensorClasses

\* type(feature_dict[feature_name]) == torch.Tensor
IsTensor(v) == TypeOf(v) = TensorType

\* The condition with its "not" dropped.
KeepFeature_nonot(plottable_features_only, v) ==
    plottable_features_only \/ IsTensor(v)

\* The condition with "or" written as "and" (and the "not" dropped).
KeepFeature_and(plottable_features_only, v) ==
    plottable_features_only /\ IsTensor(v)

\* not plottable_features_only or type(feature_dict[feature_name]) == torch.Tensor
KeepFeature(plottable_features_only, v) ==
    (~plottable_features_only) \/ IsTensor(v)

\* The inner loop's body with the set rebound instead of added to.
FeatureStep_assign(unique_feature_names, feature_dict, feature_name, plottable_features_only) ==
    IF KeepFeature(plottable_features_only, feature_dict[feature_name])
    THEN {feature_name}
    ELSE unique_feature_names

\* The inner loop's body: if <condition>: unique_feature_names.add(feature_name)
FeatureStep(unique_feature_names, feature_dict, feature_name, plottable_features_only) ==
    IF KeepFeature(plottable_features_only, feature_dict[feature_name])
    THEN unique_feature_names \cup {feature_name}
    ELSE unique_feature_names

\* for feature_name in feature_dict: ...   (todo: the keys not yet visited)
RECURSIVE FeatureLoop(_, _, _, _)
FeatureLoop(unique_feature_names, feature_dict, todo, plottable_features_only) ==
    IF todo = {} THEN unique_feature_names
    ELSE LET feature_name == CHOOSE f \in todo : TRUE
         IN  FeatureLoop(
                 FeatureStep(unique_feature_names, feature_dict, feature_name,
                             plottable_features_only),
                 feature_dict, todo \ {feature_name}, plottable_features_only)

\* for module_fqn in self.generated_reports: ...
RECURSIVE ModuleLoop(_, _, _, _)
ModuleLoop(unique_feature_names, generated_reports, todo, plottable_features_only) ==
    IF todo = {} THEN unique_feature_names
    ELSE LET module_fqn == CHOOSE m \in todo : TRUE
             feature_dict == generated_reports[module_fqn]
         IN  ModuleLoop(
                 FeatureLoop(unique_feature_names, feature_dict,
                             DOMAIN feature_dict, plottable_features_only),
                 generated_reports, todo \ {module_fqn}, plottable_features_only)

\* unique_feature_names = set(); the two loops; return unique_feature_names
get_all_unique_feature_names(h, slf, plottable_features_only) ==
    SetObject(ModuleLoop({}, h[slf.generated_reports],
                         DOMAIN h[slf.generated_reports], plottable_features_only))

\* A default of False for plottable_features_only.
plottable_features_only_default_false == FALSE

\* plottable_features_only: bool = True
plottable_features_only_default == TRUE

\* The outcome of a body that is only "pass": nothing raised, None returned,
\* the heap and standard output as they were.
Pass(h, stdout) == [heap |-> h, out |-> stdout, raised |-> FALSE, value |-> NoneValue]

\* generate_table_info that pops the feature it filters on from every layer.
generate_table_info_pop(h, slf, stdout, feature, module_fqn_prefix_filter) ==
    [heap |-> [h EXCEPT ![slf.generated_reports] =
                  [m \in DOMAIN @ |-> DictDel(@[m], feature)]],
     out |-> stdout, raised |-> FALSE, value |-> NoneValue]

generate_table_info(h, slf, stdout, feature, module_fqn_prefix_filter) ==
    Pass(h, stdout)

generate_table_visualization(h, slf, stdout, feature, module_fqn_prefix_filter) ==
    Pass(h, stdout)

\* generate_plot_info whose body is "raise NotImplementedError".
generate_plot_info_raise(h, slf, stdout, feature, module_fqn_prefix_filter) ==
    [heap |-> h, out |-> stdout, raised |-> TRUE, value |-> NoneValue]

generate_plot_info(h, slf, stdout, feature, module_fqn_prefix_filter) ==
    Pass(h, stdout)

generate_plot_visualization(h, slf, stdout, feature, module_fqn_prefix_filter) ==
    Pass(h, stdout)

generate_histogram_info(h, slf, stdout, feature, module_fqn_prefix_filter) ==
    Pass(h, stdout)

generate_histogram_visualization(h, slf, stdout, feature, module_fqn_prefix_filter) ==
    Pass(h, stdout)

\* ------------------------------------------------------------ actions ----

\* The values a caller passes for feature and module_fqn_prefix_filter
\* ("" is the default of both, where there is one).
FeatureArgs == {""} \cup FeatureNames

PrefixArgs == {"", "block1"}

\* visualizer = ModelReportVisualizer(mapping)
Construct ==
    /\ ~self.constructed
    /\ LET r == ModelReportVisualizer_init(heap, mapping)
       IN  /\ heap' = r.heap
           /\ self' = r.self
    /\ UNCHANGED <<mapping, ret, out, fresh, modified>>

\* The effect on the state of a call that returned the outcome r.
Returned(method, args, r) ==
    /\ heap' = r.heap
    /\ out' = r.out
    /\ ret' = [method |-> method, args |-> args, raised |-> r.raised, value |-> r.value]
    /\ fresh' = TRUE
    /\ UNCHANGED <<mapping, self, modified>>

CallGetAllUniqueModuleFqns ==
    /\ self.constructed
    /\ Returned("get_all_unique_module_fqns", <<>>,
                [heap |-> heap, out |-> out, raised |-> FALSE,
                 value |-> get_all_unique_module_fqns(heap, self)])

\* args is the argument list as written by the caller: empty, or the flag.
CallGetAllUniqueFeatureNames ==
    /\ self.constructed
    /\ \E args \in {<<>>, <<TRUE>>, <<FALSE>>} :
         LET plottable_features_only ==
                 IF Len(args) = 0 THEN plottable_features_only_default ELSE args[1]
         IN  Returned("get_all_unique_feature_names", args,
                      [heap |-> heap, out |-> out, raised |-> FALSE,
                       value |-> get_all_unique_feature_names(
                                     heap, self, plottable_features_only)])

CallGenerateTableInfo ==
    /\ self.constructed
    /\ \E feature \in FeatureArgs, prefix \in PrefixArgs :
         Returned("generate_table_info", <<feature, prefix>>,
                  generate_table_info(heap, self, out, feature, prefix))

CallGenerateTableVisualization ==
    /\ self.constructed
    /\ \E feature \in FeatureArgs, prefix \in PrefixArgs :
         Returned("generate_table_visualization", <<feature, prefix>>,
                  generate_table_visualization(heap, self, out, feature, prefix))

CallGeneratePlotInfo ==
    /\ self.constructed
    /\ \E feature \in FeatureArgs, prefix \in PrefixArgs :
         Returned("generate_plot_info", <<feature, prefix>>,
                  generate_plot_info(heap, self, out, feature, prefix))

CallGeneratePlotVisualization ==
    /\ self.constructed
    /\ \E feature \in FeatureArgs, prefix \in PrefixArgs :
         Returned("generate_plot_visualization", <<feature, prefix>>,
                  generate_plot_visualization(heap, self, out, feature, prefix))

CallGenerateHistogramInfo ==
    /\ self.constructed
    /\ \E feature \in FeatureArgs, prefix \in PrefixArgs :
         Returned("generate_histogram_info", <<feature, prefix>>,
                  generate_histogram_info(heap, self, out, feature, prefix))

CallGenerateHistogramVisualization ==
    /\ self.constructed
    /\ \E feature \in FeatureArgs, prefix \in PrefixArgs :
         Returned("generate_histogram_visualization", <<feature, prefix>>,
                  generate_histogram_visualization(heap, self, out, feature, prefix))

\* The caller's own statements on the mapping it passed to the constructor.
CallerWrites(report) ==
    /\ heap' = [heap EXCEPT ![mapping] = report]
    /\ fresh' = FALSE
    /\ modified' = (modified \/ self.constructed)
    /\ UNCHANGED <<mapping, self, ret, out>>

\* mapping[module_fqn] = {}
CallerAddModule ==
    \E m \in ModuleFqns \ DOMAIN heap[mapping] :
        CallerWrites(DictSet(heap[mapping], m, EmptyDict))

\* del mapping[module_fqn]
CallerDelModule ==
    \E m \in DOMAIN heap[mapping] :
        CallerWrites(DictDel(heap[mapping], m))

\* mapping[module_fqn][feature_name] = v
CallerSetFeature ==
    \E m \in DOMAIN heap[mapping], f \in FeatureNames, v \in Values :
        /\ \/ f \in DOMAIN heap[mapping][m]
           \/ NumEntries(heap[mapping], DOMAIN heap[mapping]) < MaxEntries
        /\ (f \in DOMAIN heap[mapping][m] => heap[mapping][m][f] # v)
        /\ CallerWrites(DictSet(heap[mapping], m, DictSet(heap[mapping][m], f, v)))

\* del mapping[module_fqn][feature_name]
CallerDelFeature ==
    \E m \in DOMAIN heap[mapping] :
        \E f \in DOMAIN heap[mapping][m] :
            CallerWrites(DictSet(heap[mapping], m, DictDel(heap[mapping][m], f)))

Next ==
    \/ Construct
    \/ CallGetAllUniqueModuleFqns
    \/ CallGetAllUniqueFeatureNames
    \/ CallGenerateTableInfo
    \/ CallGenerateTableVisualization
    \/ CallGeneratePlotInfo
    \/ CallGeneratePlotVisualization
    \/ CallGenerateHistogramInfo
    \/ CallGenerateHistogramVisualization
    \/ CallerAddModule
    \/ CallerDelModule
    \/ CallerSetFeature
    \/ CallerDelFeature

Spec == Init /\ [][Next]_vars

\* ------------------------------------------------------------- claims ----

\* The latest call was to the named accessor and the mapping is as it was then.
FqnsReturned ==
    self.constructed /\ fresh /\ ret.method = "get_all_unique_module_fqns"

NamesReturned(args) ==
    /\ self.constructed /\ fresh
    /\ ret.method = "get_all_unique_feature_names"
    /\ ret.args = args

\* The feature names of a report, by their definition rather than by the loops.
AllNames(report) == UNION {DOMAIN report[m] : m \in DOMAIN report}

NamesWithType(report, types) ==
    {f \in AllNames(report) :
        \E m \in DOMAIN report : f \in DOMAIN report[m] /\ TypeOf(report[m][f]) \in types}

\* The names all of whose values, in every layer that has them, are of a
\* class derived from the tensor type.
SubclassOnlyNames(report) ==
    NamesWithType(report, {TensorSubclassType})
        \ NamesWithType(report, {TensorType, FloatType})

AllValuesAreTensors(report) ==
    \A m \in DOMAIN report : \A f \in DOMAIN report[m] : TypeOf(report[m][f]) = TensorType

InfoMethods == {"generate_table_info", "generate_plot_info", "generate_histogram_info"}

GeneratorMethods ==
    InfoMethods \cup {"generate_table_visualization", "generate_plot_visualization",
                      "generate_histogram_visualization"}

\* C1: get_all_unique_module_fqns() returns a set holding exactly the keys of
\* the held report: every layer identifier of the report and nothing else;
\* for the empty report it is the empty set.
C1_FqnsAreTheKeys ==
    FqnsReturned =>
        /\ ret.value.kind = "set"
        /\ ret.value.elems = DOMAIN Held
        /\ (Held = EmptyDict => ret.value.elems = {})

C1_Witness ==
    FqnsReturned /\ Cardinality(DOMAIN Held) = 2 /\ \E m \in DOMAIN Held : Held[m] = EmptyDict

\* C2: get_all_unique_feature_names(plottable_features_only=False) returns
\* exactly the union over the layers of the feature names of each layer's
\* feature set, whatever the types of the values; a layer with an empty
\* feature set adds nothing and the empty report gives the empty set.
C2_AllFeatureNames ==
    NamesReturned(<<FALSE>>) =>
        /\ ret.value.kind = "set"
        /\ ret.value.elems = AllNames(Held)
        /\ ((\A m \in DOMAIN Held : Held[m] = EmptyDict) => ret.value.elems = {})

C2_Witness ==
    /\ NamesReturned(<<FALSE>>)
    /\ Cardinality(ret.value.elems) = 2
    /\ NamesWithType(Held, {TensorType}) = {}
    /\ \E m \in DOMAIN Held : Held[m] = EmptyDict

\* C3: get_all_unique_feature_names(plottable_features_only=True) returns
\* exactly the feature names that hold a value of the tensor type in at least
\* one layer: a name that is a tensor in one layer and not in another is
\* returned, a name that is a tensor in no layer is not.
C3_PlottableFeatureNames ==
    NamesReturned(<<TRUE>>) =>
        /\ ret.value.kind = "set"
        /\ ret.value.elems = NamesWithType(Held, {TensorType})

C3_Witness ==
    /\ NamesReturned(<<TRUE>>)
    /\ \E f \in ret.value.elems : f \in NamesWithType(Held, {FloatType})
    /\ \E f \in AllNames(Held) : f \notin ret.value.elems

\* C4: a call of get_all_unique_feature_names() without an argument returns
\* what the call with plottable_features_only=True returns on the same report.
C4_DefaultIsPlottableOnly ==
    NamesReturned(<<>>) =>
        /\ ret.value = SetObject(ModuleLoop({}, Held, DOMAIN Held, TRUE))
        /\ ret.value.elems = NamesWithType(Held, {TensorType})

C4_Witness ==
    /\ NamesReturned(<<>>)
    /\ ret.value.elems # {}
    /\ ret.value.elems # AllNames(Held)

\* C5: generate_table_info, generate_plot_info and generate_histogram_info
\* each return a tuple of two objects: a string or a callable, and a list of
\* rows whose row 0 holds the column headers.
C5_InfoReturnsTuple ==
    (self.constructed /\ ret.method \in InfoMethods) =>
        /\ ret.value.kind = "tuple"
        /\ ret.value.first.kind \in {"str", "function"}
        /\ ret.value.second.kind = "list"
        /\ Len(ret.value.second.rows) >= 1

C7_MethodsKeepTheReport ==
    [][ /\ (fresh' => heap' = heap /\ self' = self)
        /\ (self'.constructed => self'.generated_reports = mapping') ]_vars

C7_Witness ==
    /\ fresh
    /\ ret.method = "generate_table_info"
    /\ ret.args[1] \in AllNames(Held)
    /\ NumEntries(Held, DOMAIN Held) = MaxEntries

\* C8: on one report, the names returned with plottable_features_only=True
\* are among those returned with plottable_features_only=False, and the two
\* sets are equal when every value of the report is a tensor.
C8_PlottableSubset ==
    /\ NamesReturned(<<TRUE>>) =>
          /\ ret.value.elems \subseteq get_all_unique_feature_names(heap, self, FALSE).elems
          /\ (AllValuesAreTensors(Held) =>
                 ret.value = get_all_unique_feature_names(heap, self, FALSE))
    /\ NamesReturned(<<FALSE>>) =>
          /\ get_all_unique_feature_names(heap, self, TRUE).elems \subseteq ret.value.elems
          /\ (AllValuesAreTensors(Held) =>
                 ret.value = get_all_unique_feature_names(heap, self, TRUE))

C8_Witness ==
    /\ NamesReturned(<<TRUE>>)
    /\ AllValuesAreTensors(Held)
    /\ Cardinality(ret.value.elems) = 2

\* C9: the constructor keeps the caller's mapping itself, not a copy of it, so
\* an accessor called after the caller changed the mapping returns the sets of
\* the changed mapping; and a set returned earlier keeps its contents when the
\* caller changes the mapping afterwards.
C9_HeldByReference ==
    [][ /\ (self'.constructed =>
               /\ self'.generated_reports = mapping'
               /\ Len(heap') = Len(heap))
        /\ ((self'.constructed /\ fresh' /\ ret'.method = "get_all_unique_module_fqns") =>
               Contents(heap', ret'.value) = DOMAIN heap'[mapping'])
        /\ ((self'.constructed /\ fresh' /\ ret'.method = "get_all_unique_feature_names") =>
               Contents(heap', ret'.value) =
                   IF ret'.args = <<FALSE>>
                   THEN AllNames(heap'[mapping'])
                   ELSE NamesWithType(heap'[mapping'], {TensorType}))
        /\ (heap' # heap => Contents(heap', ret'.value) = Contents(heap, ret.value)) ]_vars

C9_Witness ==
    /\ self.constructed /\ modified /\ fresh
    /\ ret.method = "get_all_unique_feature_names"
    /\ ret.args = <<FALSE>>
    /\ Cardinality(ret.value.elems) = 2

\* C10: plottability is equality of the value's type with the tensor type: a
\* name whose only values are of a class derived from the tensor type is left
\* out with plottable_features_only=True and returned with
\* plottable_features_only=False.
C10_ExactTypeOnly ==
    /\ NamesReturned(<<TRUE>>) => ret.value.elems \cap SubclassOnlyNames(Held) = {}
    /\ NamesReturned(<<FALSE>>) => SubclassOnlyNames(Held) \subseteq ret.value.elems

C10_Witness ==
    /\ NamesReturned(<<TRUE>>)
    /\ SubclassOnlyNames(Held) # {}
    /\ ret.value.elems # {}

====
